---- MODULE Spec2Model ----
(***************************************************************************)
(* HMAC primitive of cc/subtle/hmac_boringssl.cc: the factory              *)
(* HmacBoringSsl::New, and the two operations ComputeMac and VerifyMac of  *)
(* the object it returns.                                                  *)
(*                                                                         *)
(* Bytes (uint8_t) are the integers 0..255, chars the integers -128..127   *)
(* (char is signed on the builds this code targets).  A std::string or a  *)
(* StringPiece is a sequence of chars; message data and keys are handed    *)
(* to the library through reinterpret_cast<const uint8_t*> and are kept    *)
(* here as sequences of bytes.                                             *)
(*                                                                         *)
(* BoringSSL's one-shot HMAC() is not part of this repository.  Its values *)
(* are the HMAC-SHA1/224/256/512 digests of a small set of keys and        *)
(* messages (HmacDigest); whether the library call fails is a property of  *)
(* the environment that does not change during a behaviour (hmac_works):   *)
(* the call is a function of its arguments.                                *)
(***************************************************************************)
EXTENDS Integers, Sequences, FiniteSets

VARIABLES
  hmac_works,  \* environment: BoringSSL's HMAC() succeeds (returns non-null)
  macs,        \* the primitives New has returned (at most one is kept)
  newRes,      \* the last call of New: its arguments and the status returned
  held,        \* the tag the caller holds from its last successful ComputeMac
  last,        \* sequential caller: the last ComputeMac / VerifyMac call and its result
  th           \* concurrent callers: the frame of each thread inside a call

vars == <<hmac_works, macs, newRes, held, last, th>>

------------------------------------------------------------------------------
(* Bounds of the model *)

\* New is called with every tag_size in -TagMargin .. EVP_MAX_MD_SIZE + TagMargin
TagMargin == 2
\* tampered tags flip every bit of the first MaxFlipPrefix bytes and of the last byte
MaxFlipPrefix == 2
\* concurrent callers: number of threads, and the largest tag_size tried
NumThreads == 2
MaxConcTag == 2

------------------------------------------------------------------------------
(* Program constants *)

\* openssl/digest.h, the size of buf
EVP_MAX_MD_SIZE == 64

\* proto/common.pb.h: the enumerators EvpHash names, UNKNOWN_HASH, and any other value
HashTypes == {"UNKNOWN_HASH", "SHA1", "SHA224", "SHA256", "SHA512", "OTHER_HASH"}

Key1 == <<107, 101, 121>>      \* "key"
Key2 == <<>>                   \* the empty key: New imposes no length restriction
Keys == {Key1, Key2}

Data0 == <<48>>                \* "0"

\* contents an uninitialized stack byte may have
UninitBytes == {0, 165}

------------------------------------------------------------------------------
(* uint8_t / char arithmetic *)

Bit(x, k) == (x \div (2 ^ k)) % 2

\* the bitwise operators on bytes, tabulated bit by bit
XorTable ==
  [a \in 0..255 |-> [b \in 0..255 |->
     LET f[k \in 0..8] ==
           IF k = 8 THEN 0 ELSE ((Bit(a, k) + Bit(b, k)) % 2) * (2 ^ k) + f[k + 1]
     IN f[0]]]

OrTable ==
  [a \in 0..255 |-> [b \in 0..255 |->
     LET f[k \in 0..8] ==
           IF k = 8 THEN 0
           ELSE (IF Bit(a, k) + Bit(b, k) > 0 THEN 2 ^ k ELSE 0) + f[k + 1]
     IN f[0]]]

\* a ^ b on operands in 0..255
Xor8(a, b) == XorTable[a][b]

\* a | b on operands in 0..255
Or8(a, b) == OrTable[a][b]

\* static_cast<uint8_t>(c) of a char
ToUint8(c) == c % 256

\* reinterpret_cast<char *>(buf): the char a byte is read as
ToChar(b) == IF b >= 128 THEN b - 256 ELSE b

\* the chars of a byte sequence
AsChars(bytes) == [i \in 1..Len(bytes) |-> ToChar(bytes[i])]

------------------------------------------------------------------------------
(* util::Status *)

Status(code, msg) == [code |-> code, msg |-> msg]
OkStatus == Status("OK", "")

UnsupportedAlgorithm == Status("UNIMPLEMENTED", "Unsupported hash")
InvalidTagSize == Status("INTERNAL", "invalid tag size")
ComputationFailure == Status("INTERNAL", "BoringSSL failed to compute HMAC")
InvalidTagLength == Status("INVALID_ARGUMENT", "incorrect tag size")
VerificationFailure == Status("INVALID_ARGUMENT", "verification failed")

------------------------------------------------------------------------------
(* BoringSSL *)

EVP_MD_size(md) ==
  CASE md = "EVP_sha1" -> 20
    [] md = "EVP_sha224" -> 28
    [] md = "EVP_sha256" -> 32
    [] md = "EVP_sha512" -> 64

\* HMAC-<md>(key, data): the digests BoringSSL computes
HmacDigest(md, key, data) ==
  CASE md = "EVP_sha1" /\ key = <<107, 101, 121>> /\ data = <<>> ->
       <<244, 43, 176, 238, 176, 24, 235, 189, 69, 151, 174, 114, 19, 113, 30, 198,
          7, 96, 132, 63>>
    [] md = "EVP_sha1" /\ key = <<107, 101, 121>> /\ data = <<48>> ->
       <<166, 252, 150, 223, 232, 222, 145, 104, 105, 83, 238, 43, 58, 153, 31, 57,
          57, 54, 113, 188>>
    [] md = "EVP_sha1" /\ key = <<107, 101, 121>> /\ data = <<49>> ->
       <<226, 63, 235, 16, 95, 150, 34, 36, 27, 242, 61, 177, 99, 140, 210, 180,
          32, 139, 31, 83>>
    [] md = "EVP_sha1" /\ key = <<107, 101, 121>> /\ data = <<50>> ->
       <<49, 18, 25, 196, 168, 12, 94, 248, 27, 28, 238, 85, 5, 35, 108, 29,
          10, 177, 146, 44>>
    [] md = "EVP_sha1" /\ key = <<107, 101, 121>> /\ data = <<52>> ->
       <<54, 82, 194, 13, 122, 142, 28, 63, 194, 101, 77, 191, 189, 220, 193, 112,
          177, 108, 75, 163>>
    [] md = "EVP_sha1" /\ key = <<107, 101, 121>> /\ data = <<56>> ->
       <<12, 56, 72, 41, 144, 238, 87, 65, 185, 40, 177, 77, 249, 121, 71, 76,
          159, 247, 38, 205>>
    [] md = "EVP_sha1" /\ key = <<107, 101, 121>> /\ data = <<32>> ->
       <<85, 151, 218, 214, 152, 172, 208, 154, 255, 35, 214, 31, 71, 111, 89, 221,
          68, 221, 142, 47>>
    [] md = "EVP_sha1" /\ key = <<107, 101, 121>> /\ data = <<16>> ->
       <<8, 35, 36, 76, 232, 106, 67, 10, 12, 148, 237, 146, 82, 125, 143, 180,
          14, 87, 230, 178>>
    [] md = "EVP_sha1" /\ key = <<107, 101, 121>> /\ data = <<112>> ->
       <<78, 151, 133, 154, 176, 234, 247, 182, 136, 203, 252, 138, 206, 230, 232, 129,
          6, 166, 42, 236>>
    [] md = "EVP_sha1" /\ key = <<107, 101, 121>> /\ data = <<176>> ->
       <<54, 75, 55, 78, 124, 106, 100, 132, 6, 128, 74, 169, 223, 112, 92, 249,
          121, 104, 245, 107>>
    [] md = "EVP_sha1" /\ key = <<>> /\ data = <<>> ->
       <<251, 219, 29, 27, 24, 170, 108, 8, 50, 75, 125, 100, 183, 31, 183, 99,
          112, 105, 14, 29>>
    [] md = "EVP_sha1" /\ key = <<>> /\ data = <<48>> ->
       <<170, 229, 69, 250, 129, 222, 151, 170, 155, 111, 223, 196, 82, 62, 26, 3,
          140, 134, 197, 188>>
    [] md = "EVP_sha1" /\ key = <<>> /\ data = <<49>> ->
       <<158, 173, 23, 193, 59, 181, 91, 243, 226, 39, 248, 254, 98, 95, 55, 143,
          66, 66, 16, 56>>
    [] md = "EVP_sha1" /\ key = <<>> /\ data = <<50>> ->
       <<219, 30, 23, 108, 137, 166, 47, 192, 12, 254, 152, 10, 223, 10, 254, 183,
          48, 68, 5, 88>>
    [] md = "EVP_sha1" /\ key = <<>> /\ data = <<52>> ->
       <<117, 4, 248, 90, 47, 164, 193, 74, 72, 63, 251, 129, 198, 202, 159, 232,
          247, 202, 83, 179>>
    [] md = "EVP_sha1" /\ key = <<>> /\ data = <<56>> ->
       <<223, 173, 148, 204, 143, 124, 153, 81, 165, 112, 23, 76, 218, 20, 245, 28,
          211, 195, 132, 218>>
    [] md = "EVP_sha1" /\ key = <<>> /\ data = <<32>> ->
       <<250, 104, 45, 190, 28, 116, 51, 92, 26, 228, 229, 126, 173, 200, 248, 27,
          76, 4, 109, 249>>
    [] md = "EVP_sha1" /\ key = <<>> /\ data = <<16>> ->
       <<195, 149, 91, 115, 136, 184, 128, 59, 82, 167, 145, 58, 192, 69, 125, 4,
          54, 191, 140, 215>>
    [] md = "EVP_sha1" /\ key = <<>> /\ data = <<112>> ->
       <<241, 237, 44, 83, 122, 193, 208, 32, 9, 122, 186, 138, 58, 74, 61, 197,
          67, 207, 235, 211>>
    [] md = "EVP_sha1" /\ key = <<>> /\ data = <<176>> ->
       <<204, 113, 207, 178, 13, 150, 31, 56, 184, 101, 8, 238, 192, 162, 144, 116,
          127, 66, 217, 3>>
    [] md = "EVP_sha224" /\ key = <<107, 101, 121>> /\ data = <<>> ->
       <<90, 166, 119, 193, 60, 225, 18, 142, 235, 58, 92, 1, 206, 247, 241, 101,
          87, 205, 11, 118, 209, 143, 213, 87, 214, 172, 57, 98>>
    [] md = "EVP_sha224" /\ key = <<107, 101, 121>> /\ data = <<48>> ->
       <<41, 81, 62, 194, 156, 67, 255, 254, 74, 118, 163, 162, 70, 159, 78, 19,
          222, 20, 235, 234, 243, 37, 162, 195, 199, 127, 81, 60>>
    [] md = "EVP_sha224" /\ key = <<107, 101, 121>> /\ data = <<49>> ->
       <<41, 81, 201, 50, 106, 254, 187, 138, 34, 49, 9, 248, 230, 213, 91, 166,
          84, 229, 33, 9, 195, 53, 23, 3, 149, 183, 201, 125>>
    [] md = "EVP_sha224" /\ key = <<107, 101, 121>> /\ data = <<50>> ->
       <<1, 132, 168, 18, 39, 177, 254, 0, 89, 70, 220, 140, 46, 164, 178, 30,
          156, 42, 251, 115, 1, 170, 160, 67, 196, 52, 219, 86>>
    [] md = "EVP_sha224" /\ key = <<107, 101, 121>> /\ data = <<52>> ->
       <<146, 181, 12, 154, 204, 58, 184, 253, 149, 158, 27, 228, 51, 155, 234, 121,
          136, 18, 25, 69, 251, 225, 202, 20, 132, 196, 237, 96>>
    [] md = "EVP_sha224" /\ key = <<107, 101, 121>> /\ data = <<56>> ->
       <<193, 239, 169, 143, 76, 205, 18, 205, 87, 93, 110, 195, 153, 242, 173, 205,
          14, 248, 140, 140, 212, 125, 216, 150, 219, 229, 170, 98>>
    [] md = "EVP_sha224" /\ key = <<107, 101, 121>> /\ data = <<32>> ->
       <<118, 114, 126, 145, 79, 135, 61, 113, 170, 38, 46, 77, 154, 95, 89, 130,
          27, 55, 125, 232, 155, 65, 79, 9, 92, 66, 254, 25>>
    [] md = "EVP_sha224" /\ key = <<107, 101, 121>> /\ data = <<16>> ->
       <<65, 143, 32, 53, 48, 215, 212, 149, 124, 190, 129, 76, 54, 145, 84, 196,
          58, 95, 214, 191, 12, 201, 62, 131, 246, 91, 109, 64>>
    [] md = "EVP_sha224" /\ key = <<107, 101, 121>> /\ data = <<112>> ->
       <<12, 160, 251, 139, 178, 152, 51, 94, 115, 152, 34, 32, 57, 76, 12, 64,
          46, 159, 45, 112, 130, 61, 206, 78, 177, 83, 46, 0>>
    [] md = "EVP_sha224" /\ key = <<107, 101, 121>> /\ data = <<176>> ->
       <<29, 3, 185, 147, 36, 32, 55, 70, 107, 32, 134, 88, 121, 81, 186, 184,
          205, 35, 124, 206, 25, 133, 178, 89, 250, 4, 83, 121>>
    [] md = "EVP_sha224" /\ key = <<>> /\ data = <<>> ->
       <<92, 225, 79, 114, 137, 70, 98, 33, 62, 39, 72, 210, 166, 186, 35, 75,
          116, 38, 57, 16, 206, 221, 226, 245, 169, 39, 21, 36>>
    [] md = "EVP_sha224" /\ key = <<>> /\ data = <<48>> ->
       <<190, 18, 238, 210, 99, 126, 181, 32, 100, 145, 96, 76, 94, 4, 66, 24,
          89, 231, 89, 107, 123, 19, 107, 141, 45, 113, 8, 136>>
    [] md = "EVP_sha224" /\ key = <<>> /\ data = <<49>> ->
       <<46, 153, 169, 44, 140, 3, 25, 244, 47, 150, 141, 231, 233, 75, 147, 156,
          175, 186, 197, 129, 94, 177, 129, 8, 131, 219, 11, 98>>
    [] md = "EVP_sha224" /\ key = <<>> /\ data = <<50>> ->
       <<203, 16, 13, 171, 214, 94, 80, 46, 134, 48, 176, 30, 167, 32, 156, 220,
          243, 94, 62, 51, 60, 174, 127, 81, 23, 40, 127, 55>>
    [] md = "EVP_sha224" /\ key = <<>> /\ data = <<52>> ->
       <<95, 86, 194, 89, 214, 87, 164, 54, 182, 151, 200, 188, 95, 11, 14, 105,
          197, 3, 58, 85, 97, 205, 231, 34, 148, 176, 140, 63>>
    [] md = "EVP_sha224" /\ key = <<>> /\ data = <<56>> ->
       <<225, 250, 113, 254, 40, 65, 196, 228, 126, 100, 12, 29, 249, 91, 219, 185,
          181, 2, 2, 107, 103, 139, 152, 112, 42, 100, 72, 219>>
    [] md = "EVP_sha224" /\ key = <<>> /\ data = <<32>> ->
       <<57, 28, 86, 192, 133, 192, 143, 105, 229, 160, 125, 217, 121, 107, 218, 29,
          132, 26, 26, 115, 178, 136, 40, 137, 251, 181, 180, 49>>
    [] md = "EVP_sha224" /\ key = <<>> /\ data = <<16>> ->
       <<52, 200, 136, 228, 152, 170, 40, 2, 176, 172, 100, 178, 9, 165, 31, 167,
          119, 249, 21, 246, 153, 86, 219, 135, 197, 208, 99, 180>>
    [] md = "EVP_sha224" /\ key = <<>> /\ data = <<112>> ->
       <<214, 189, 206, 81, 194, 155, 14, 79, 102, 227, 186, 139, 110, 185, 234, 234,
          30, 190, 220, 134, 64, 237, 87, 105, 107, 133, 33, 10>>
    [] md = "EVP_sha224" /\ key = <<>> /\ data = <<176>> ->
       <<104, 11, 220, 100, 164, 43, 231, 17, 145, 42, 7, 117, 95, 214, 214, 111,
          251, 88, 3, 3, 248, 233, 163, 45, 33, 52, 170, 107>>
    [] md = "EVP_sha256" /\ key = <<107, 101, 121>> /\ data = <<>> ->
       <<93, 93, 19, 149, 99, 201, 91, 89, 103, 185, 189, 154, 140, 155, 35, 58,
          157, 237, 180, 80, 114, 121, 76, 210, 50, 220, 27, 116, 131, 38, 7, 208>>
    [] md = "EVP_sha256" /\ key = <<107, 101, 121>> /\ data = <<48>> ->
       <<8, 156, 56, 106, 145, 73, 181, 204, 229, 151, 43, 254, 15, 5, 200, 214,
          233, 45, 226, 46, 144, 36, 87, 179, 162, 58, 105, 167, 159, 133, 250, 151>>
    [] md = "EVP_sha256" /\ key = <<107, 101, 121>> /\ data = <<49>> ->
       <<109, 169, 31, 185, 21, 23, 190, 31, 92, 220, 243, 175, 145, 215, 212, 12,
          113, 125, 214, 56, 163, 6, 21, 118, 6, 251, 46, 88, 79, 122, 233, 38>>
    [] md = "EVP_sha256" /\ key = <<107, 101, 121>> /\ data = <<50>> ->
       <<174, 123, 62, 232, 123, 140, 146, 20, 247, 20, 223, 28, 32, 66, 199, 169,
          133, 185, 215, 17, 233, 147, 138, 6, 57, 55, 173, 22, 54, 119, 90, 136>>
    [] md = "EVP_sha256" /\ key = <<107, 101, 121>> /\ data = <<52>> ->
       <<181, 10, 103, 166, 153, 203, 59, 128, 225, 2, 150, 45, 225, 106, 98, 217,
          243, 247, 138, 74, 39, 181, 240, 227, 229, 238, 32, 47, 199, 218, 180, 189>>
    [] md = "EVP_sha256" /\ key = <<107, 101, 121>> /\ data = <<56>> ->
       <<166, 122, 139, 148, 30, 126, 189, 165, 209, 100, 179, 83, 53, 193, 167, 83,
          135, 31, 24, 219, 105, 100, 34, 198, 10, 204, 110, 42, 26, 10, 220, 161>>
    [] md = "EVP_sha256" /\ key = <<107, 101, 121>> /\ data = <<32>> ->
       <<8, 129, 48, 249, 54, 3, 17, 125, 185, 178, 94, 69, 73, 211, 97, 251,
          27, 60, 162, 222, 67, 213, 171, 47, 123, 222, 177, 16, 25, 214, 27, 117>>
    [] md = "EVP_sha256" /\ key = <<107, 101, 121>> /\ data = <<16>> ->
       <<48, 168, 252, 6, 54, 51, 95, 44, 209, 148, 50, 19, 254, 132, 126, 148,
          217, 216, 243, 8, 51, 53, 138, 173, 243, 20, 209, 201, 54, 120, 216, 210>>
    [] md = "EVP_sha256" /\ key = <<107, 101, 121>> /\ data = <<112>> ->
       <<22, 186, 255, 65, 219, 24, 234, 77, 80, 64, 206, 242, 76, 38, 241, 221,
          98, 50, 52, 133, 5, 244, 100, 90, 78, 241, 24, 17, 161, 104, 249, 170>>
    [] md = "EVP_sha256" /\ key = <<107, 101, 121>> /\ data = <<176>> ->
       <<83, 190, 147, 244, 63, 96, 234, 52, 16, 244, 181, 214, 86, 139, 237, 67,
          81, 2, 150, 204, 244, 221, 46, 160, 41, 235, 173, 75, 51, 134, 143, 71>>
    [] md = "EVP_sha256" /\ key = <<>> /\ data = <<>> ->
       <<182, 19, 103, 154, 8, 20, 217, 236, 119, 47, 149, 215, 120, 195, 95, 197,
          255, 22, 151, 196, 147, 113, 86, 83, 198, 199, 18, 20, 66, 146, 197, 173>>
    [] md = "EVP_sha256" /\ key = <<>> /\ data = <<48>> ->
       <<153, 121, 228, 195, 238, 25, 150, 95, 158, 204, 109, 202, 107, 57, 84, 177,
          12, 24, 193, 191, 161, 5, 197, 18, 204, 58, 229, 139, 232, 93, 183, 28>>
    [] md = "EVP_sha256" /\ key = <<>> /\ data = <<49>> ->
       <<65, 224, 169, 68, 143, 145, 237, 186, 75, 5, 198, 194, 252, 14, 219, 29,
          100, 24, 170, 41, 43, 91, 41, 66, 99, 123, 236, 67, 162, 155, 149, 35>>
    [] md = "EVP_sha256" /\ key = <<>> /\ data = <<50>> ->
       <<177, 141, 8, 192, 237, 206, 76, 104, 94, 99, 80, 219, 201, 4, 116, 112,
          255, 51, 29, 165, 66, 132, 153, 171, 90, 92, 15, 154, 45, 129, 19, 78>>
    [] md = "EVP_sha256" /\ key = <<>> /\ data = <<52>> ->
       <<63, 71, 42, 226, 55, 165, 81, 62, 9, 19, 102, 112, 208, 174, 240, 206,
          52, 200, 14, 216, 206, 38, 9, 139, 63, 144, 144, 238, 20, 214, 156, 78>>
    [] md = "EVP_sha256" /\ key = <<>> /\ data = <<56>> ->
       <<123, 19, 3, 152, 98, 86, 95, 250, 59, 3, 175, 169, 68, 238, 188, 141,
          87, 42, 50, 22, 135, 108, 214, 156, 62, 230, 71, 74, 173, 239, 105, 143>>
    [] md = "EVP_sha256" /\ key = <<>> /\ data = <<32>> ->
       <<89, 241, 235, 59, 190, 161, 217, 51, 9, 142, 200, 142, 13, 228, 72, 100,
          93, 0, 175, 244, 52, 165, 174, 0, 158, 159, 15, 25, 110, 242, 109, 237>>
    [] md = "EVP_sha256" /\ key = <<>> /\ data = <<16>> ->
       <<217, 240, 240, 98, 123, 227, 169, 120, 27, 221, 251, 32, 85, 98, 127, 215,
          30, 188, 208, 22, 50, 132, 137, 196, 138, 108, 214, 34, 197, 249, 183, 227>>
    [] md = "EVP_sha256" /\ key = <<>> /\ data = <<112>> ->
       <<161, 215, 95, 168, 220, 13, 26, 132, 207, 109, 246, 240, 229, 92, 181, 45,
          137, 212, 74, 203, 38, 231, 134, 201, 50, 156, 248, 220, 136, 4, 169, 78>>
    [] md = "EVP_sha256" /\ key = <<>> /\ data = <<176>> ->
       <<205, 110, 123, 23, 50, 207, 48, 112, 118, 158, 188, 177, 55, 176, 177, 7,
          108, 80, 43, 136, 28, 20, 5, 32, 79, 54, 116, 214, 184, 41, 193, 40>>
    [] md = "EVP_sha512" /\ key = <<107, 101, 121>> /\ data = <<>> ->
       <<132, 250, 90, 160, 39, 155, 188, 71, 50, 103, 208, 90, 83, 234, 3, 49,
          10, 152, 124, 236, 196, 193, 83, 95, 242, 155, 109, 118, 184, 241, 68, 74,
          114, 141, 243, 170, 219, 137, 212, 169, 166, 112, 158, 25, 152, 243, 115, 86,
          110, 143, 130, 74, 140, 169, 59, 24, 33, 240, 182, 155, 194, 162, 246, 94>>
    [] md = "EVP_sha512" /\ key = <<107, 101, 121>> /\ data = <<48>> ->
       <<14, 114, 14, 96, 160, 6, 84, 116, 66, 186, 96, 124, 18, 51, 5, 70,
          149, 144, 117, 65, 233, 146, 215, 177, 53, 46, 30, 169, 214, 193, 250, 198,
          25, 226, 140, 42, 13, 40, 117, 79, 55, 37, 81, 177, 45, 43, 78, 222,
          68, 147, 53, 19, 23, 88, 198, 188, 107, 151, 219, 117, 51, 82, 196, 1>>
    [] md = "EVP_sha512" /\ key = <<107, 101, 121>> /\ data = <<49>> ->
       <<84, 129, 105, 5, 233, 93, 10, 116, 3, 105, 213, 251, 64, 204, 55, 206,
          19, 118, 29, 159, 86, 232, 151, 80, 133, 144, 250, 242, 48, 97, 82, 9,
          49, 71, 64, 146, 144, 89, 43, 106, 237, 220, 105, 75, 45, 228, 168, 22,
          82, 107, 227, 153, 231, 191, 80, 169, 113, 161, 83, 125, 248, 49, 202, 74>>
    [] md = "EVP_sha512" /\ key = <<107, 101, 121>> /\ data = <<50>> ->
       <<216, 104, 244, 86, 219, 92, 218, 220, 127, 10, 142, 5, 52, 165, 92, 233,
          12, 245, 197, 151, 242, 73, 159, 156, 98, 112, 112, 9, 202, 177, 21, 236,
          40, 41, 14, 236, 24, 53, 143, 78, 145, 115, 234, 165, 138, 40, 237, 169,
          240, 174, 142, 223, 5, 25, 63, 216, 32, 88, 220, 40, 72, 134, 36, 186>>
    [] md = "EVP_sha512" /\ key = <<107, 101, 121>> /\ data = <<52>> ->
       <<132, 14, 203, 177, 207, 136, 55, 200, 201, 245, 254, 166, 182, 211, 218, 188,
          188, 49, 217, 35, 213, 29, 90, 124, 125, 63, 186, 183, 40, 119, 211, 99,
          137, 225, 85, 138, 124, 164, 195, 242, 57, 1, 230, 106, 86, 40, 254, 58,
          96, 150, 197, 171, 194, 174, 155, 76, 241, 222, 101, 195, 168, 152, 225, 41>>
    [] md = "EVP_sha512" /\ key = <<107, 101, 121>> /\ data = <<56>> ->
       <<133, 58, 87, 184, 255, 86, 68, 191, 237, 188, 153, 237, 251, 25, 96, 12,
          203, 71, 159, 49, 22, 191, 13, 166, 47, 247, 27, 45, 147, 132, 23, 147,
          212, 219, 77, 174, 239, 160, 204, 128, 165, 66, 153, 15, 204, 223, 63, 211,
          82, 176, 126, 139, 59, 250, 161, 242, 43, 225, 75, 2, 217, 136, 196, 229>>
    [] md = "EVP_sha512" /\ key = <<107, 101, 121>> /\ data = <<32>> ->
       <<189, 209, 47, 128, 64, 134, 6, 170, 253, 97, 142, 65, 243, 177, 80, 73,
          76, 127, 185, 49, 113, 66, 64, 100, 128, 123, 28, 127, 97, 174, 19, 236,
          113, 55, 92, 175, 86, 240, 196, 42, 14, 207, 48, 104, 198, 166, 91, 197,
          23, 245, 173, 193, 202, 171, 67, 127, 188, 83, 238, 2, 45, 180, 166, 69>>
    [] md = "EVP_sha512" /\ key = <<107, 101, 121>> /\ data = <<16>> ->
       <<247, 224, 167, 250, 220, 153, 201, 79, 34, 20, 157, 191, 37, 26, 102, 94,
          37, 170, 224, 225, 233, 128, 80, 185, 84, 205, 53, 205, 195, 123, 79, 251,
          199, 240, 16, 32, 210, 40, 68, 167, 27, 153, 20, 11, 253, 11, 80, 55,
          191, 109, 123, 155, 120, 20, 35, 196, 125, 2, 130, 30, 170, 162, 125, 92>>
    [] md = "EVP_sha512" /\ key = <<107, 101, 121>> /\ data = <<112>> ->
       <<85, 43, 195, 166, 38, 228, 191, 28, 205, 74, 141, 40, 137, 76, 243, 216,
          107, 115, 118, 222, 92, 7, 155, 67, 200, 45, 127, 86, 120, 89, 231, 12,
          112, 101, 135, 204, 169, 82, 121, 96, 197, 118, 36, 169, 174, 30, 218, 66,
          66, 238, 110, 189, 25, 15, 29, 153, 37, 116, 81, 116, 254, 10, 97, 96>>
    [] md = "EVP_sha512" /\ key = <<107, 101, 121>> /\ data = <<176>> ->
       <<21, 103, 151, 246, 78, 132, 47, 41, 193, 246, 143, 215, 58, 3, 242, 160,
          203, 72, 98, 115, 16, 7, 120, 89, 96, 127, 228, 26, 94, 97, 105, 23,
          124, 93, 238, 202, 190, 80, 248, 104, 56, 19, 106, 191, 229, 219, 101, 10,
          95, 103, 139, 4, 174, 196, 171, 61, 10, 123, 120, 134, 174, 165, 85, 240>>
    [] md = "EVP_sha512" /\ key = <<>> /\ data = <<>> ->
       <<185, 54, 206, 232, 108, 159, 135, 170, 93, 60, 111, 46, 132, 203, 90, 66,
          57, 165, 254, 80, 72, 10, 110, 198, 107, 112, 171, 91, 31, 74, 198, 115,
          12, 108, 81, 84, 33, 179, 39, 236, 29, 105, 64, 46, 83, 223, 180, 154,
          215, 56, 30, 176, 103, 179, 56, 253, 123, 12, 178, 34, 71, 34, 93, 71>>
    [] md = "EVP_sha512" /\ key = <<>> /\ data = <<48>> ->
       <<128, 82, 167, 57, 142, 44, 123, 99, 120, 87, 33, 234, 97, 4, 214, 169,
          171, 227, 220, 92, 153, 202, 32, 216, 200, 63, 190, 204, 144, 126, 227, 113,
          9, 29, 20, 7, 202, 241, 19, 86, 193, 200, 151, 129, 3, 14, 122, 170,
          249, 147, 25, 19, 42, 83, 190, 241, 60, 39, 55, 229, 98, 142, 110, 5>>
    [] md = "EVP_sha512" /\ key = <<>> /\ data = <<49>> ->
       <<138, 57, 13, 241, 174, 98, 2, 91, 153, 99, 128, 175, 238, 163, 135, 178,
          187, 139, 4, 147, 97, 121, 232, 93, 85, 60, 194, 170, 159, 237, 19, 53,
          10, 253, 81, 140, 247, 83, 135, 233, 145, 250, 23, 0, 125, 15, 136, 217,
          44, 168, 120, 73, 140, 121, 213, 165, 64, 175, 101, 73, 164, 97, 212, 122>>
    [] md = "EVP_sha512" /\ key = <<>> /\ data = <<50>> ->
       <<11, 104, 205, 23, 247, 193, 23, 146, 109, 207, 192, 249, 147, 215, 35, 192,
          155, 47, 139, 213, 180, 104, 154, 13, 198, 255, 69, 119, 219, 6, 235, 215,
          250, 59, 112, 41, 10, 107, 142, 62, 168, 149, 80, 177, 43, 111, 46, 80,
          64, 50, 144, 216, 225, 231, 11, 172, 67, 22, 57, 99, 89, 181, 28, 221>>
    [] md = "EVP_sha512" /\ key = <<>> /\ data = <<52>> ->
       <<113, 186, 79, 198, 127, 183, 120, 139, 69, 48, 202, 139, 78, 93, 33, 238,
          88, 172, 66, 81, 96, 17, 228, 255, 121, 81, 117, 68, 113, 74, 102, 79,
          27, 167, 50, 252, 117, 195, 150, 50, 169, 5, 149, 97, 189, 67, 192, 228,
          87, 105, 225, 42, 115, 178, 49, 233, 38, 149, 232, 37, 50, 225, 169, 125>>
    [] md = "EVP_sha512" /\ key = <<>> /\ data = <<56>> ->
       <<176, 99, 99, 126, 165, 166, 197, 128, 201, 154, 113, 133, 99, 221, 193, 191,
          208, 198, 130, 190, 238, 4, 130, 123, 91, 219, 223, 239, 239, 4, 185, 61,
          144, 225, 203, 155, 109, 118, 98, 140, 179, 242, 213, 143, 143, 55, 192, 234,
          25, 147, 81, 65, 114, 34, 169, 72, 79, 154, 69, 75, 106, 5, 197, 78>>
    [] md = "EVP_sha512" /\ key = <<>> /\ data = <<32>> ->
       <<175, 175, 14, 87, 152, 10, 47, 58, 94, 77, 67, 149, 69, 116, 66, 59,
          180, 96, 152, 228, 135, 128, 242, 209, 20, 196, 116, 175, 164, 235, 128, 230,
          151, 129, 97, 253, 181, 203, 74, 140, 55, 85, 247, 218, 151, 9, 227, 187,
          243, 95, 6, 111, 152, 81, 110, 230, 160, 252, 27, 10, 172, 38, 44, 199>>
    [] md = "EVP_sha512" /\ key = <<>> /\ data = <<16>> ->
       <<50, 47, 224, 2, 18, 164, 234, 205, 45, 209, 28, 100, 60, 161, 180, 47,
          62, 116, 57, 134, 232, 181, 191, 182, 151, 86, 25, 4, 70, 194, 188, 89,
          95, 40, 55, 16, 232, 40, 207, 174, 125, 91, 179, 94, 146, 71, 108, 176,
          175, 208, 130, 35, 171, 57, 236, 182, 168, 209, 3, 28, 235, 86, 117, 22>>
    [] md = "EVP_sha512" /\ key = <<>> /\ data = <<112>> ->
       <<187, 115, 243, 59, 76, 181, 192, 108, 155, 167, 197, 168, 29, 56, 206, 178,
          46, 231, 200, 82, 250, 153, 64, 5, 85, 84, 89, 97, 99, 248, 172, 178,
          192, 30, 71, 16, 88, 181, 98, 93, 128, 224, 229, 57, 76, 93, 156, 66,
          28, 102, 235, 100, 210, 253, 96, 124, 238, 41, 234, 8, 116, 141, 68, 23>>
    [] md = "EVP_sha512" /\ key = <<>> /\ data = <<176>> ->
       <<103, 180, 251, 101, 117, 225, 181, 241, 233, 22, 155, 159, 5, 215, 8, 193,
          70, 206, 163, 212, 78, 20, 130, 73, 210, 61, 183, 114, 240, 199, 216, 22,
          52, 160, 187, 250, 179, 136, 106, 83, 198, 52, 118, 126, 160, 5, 226, 86,
          117, 180, 196, 252, 211, 253, 135, 45, 251, 225, 103, 12, 16, 240, 136, 113>>

\* the messages ComputeMac is called with
Messages == {<<>>, Data0}

\* the messages HmacDigest is tabulated for: "", "0", and "0" with one bit flipped
Data == Messages \cup {<<Xor8(Data0[1], 2 ^ k)>> : k \in 0..7}

\* HMAC(md, key, key_len, data, data_len, buf, &out_len): null on failure, else
\* the digest is written to the first EVP_MD_size(md) bytes of buf
HMAC(md, key, data, buf, works) ==
  IF ~works
    THEN [res |-> "nullptr", buf |-> buf]
    ELSE LET digest == HmacDigest(md, key, data)
         IN [res |-> "buf",
             buf |-> digest \o SubSeq(buf, Len(digest) + 1, EVP_MAX_MD_SIZE)]

\* uint8_t buf[EVP_MAX_MD_SIZE]; left uninitialized
UninitBuf(g) == [i \in 1..EVP_MAX_MD_SIZE |-> g]

------------------------------------------------------------------------------
(* hmac_boringssl.cc *)

\* EvpHash whose default case falls back to SHA256
EvpHash_Default(hash_type) ==
  CASE hash_type = "SHA1" -> [status |-> OkStatus, value |-> "EVP_sha1"]
    [] hash_type = "SHA224" -> [status |-> OkStatus, value |-> "EVP_sha224"]
    [] hash_type = "SHA512" -> [status |-> OkStatus, value |-> "EVP_sha512"]
    [] OTHER -> [status |-> OkStatus, value |-> "EVP_sha256"]

EvpHash(hash_type) ==
  CASE hash_type = "SHA1" -> [status |-> OkStatus, value |-> "EVP_sha1"]
    [] hash_type = "SHA224" -> [status |-> OkStatus, value |-> "EVP_sha224"]
    [] hash_type = "SHA256" -> [status |-> OkStatus, value |-> "EVP_sha256"]
    [] hash_type = "SHA512" -> [status |-> OkStatus, value |-> "EVP_sha512"]
    [] OTHER -> [status |-> UnsupportedAlgorithm, value |-> "nullptr"]

\* the constructor
HmacBoringSsl(md, tag_size, key_value) ==
  [md_ |-> md, tag_size_ |-> tag_size, key_value_ |-> key_value]

\* the test with tag_size < 0 for tag_size <= 0
TagSizeInvalid_ZeroAllowed(md, tag_size) == EVP_MD_size(md) < tag_size \/ tag_size < 0

\* the test against the size of buf instead of the digest size
TagSizeInvalid_MaxSize(md, tag_size) == EVP_MAX_MD_SIZE < tag_size \/ tag_size <= 0

\* the tag-size test of New
TagSizeInvalid(md, tag_size) == EVP_MD_size(md) < tag_size \/ tag_size <= 0

\* New: the status returned and the objects created (none on failure)
New(hash_type, tag_size, key_value) ==
  LET res == EvpHash(hash_type)
  IN IF res.status # OkStatus
       THEN [status |-> res.status, value |-> {}]
       ELSE IF TagSizeInvalid(res.value, tag_size)
              THEN [status |-> InvalidTagSize, value |-> {}]
              ELSE [status |-> OkStatus,
                    value |-> {HmacBoringSsl(res.value, tag_size, key_value)}]

\* std::string(reinterpret_cast<char *>(buf), sizeof(buf))
TagOfBuf_Full(buf, tag_size) == [i \in 1..EVP_MAX_MD_SIZE |-> ToChar(buf[i])]

\* std::string(reinterpret_cast<char *>(buf), tag_size_)
TagOfBuf(buf, tag_size) == [i \in 1..tag_size |-> ToChar(buf[i])]

\* ComputeMac that clears the key once the tag is computed
AfterComputeMac_KeyCleared(o) == [o EXCEPT !.key_value_ = <<>>]

\* ComputeMac is a const method: the object after a call
AfterComputeMac(o) == o

\* ComputeMac on object o; g is what the uninitialized buf holds
ComputeMac(o, data, g, works) ==
  LET h == HMAC(o.md_, o.key_value_, data, UninitBuf(g), works)
  IN IF h.res = "nullptr"
       THEN [status |-> ComputationFailure, value |-> <<>>]
       ELSE [status |-> OkStatus, value |-> TagOfBuf(h.buf, o.tag_size_)]

\* mac.size() < tag_size_
TagLengthMismatch_Shorter(mac_size, tag_size) == mac_size < tag_size

\* mac.size() != tag_size_
TagLengthMismatch(mac_size, tag_size) == mac_size # tag_size

\* the loop test i < tag_size_ - 1
LoopCond_SkipLast(i, tag_size) == i < tag_size - 1

\* the loop test i < tag_size_
LoopCond(i, tag_size) == i < tag_size

\* diff = buf[i] ^ static_cast<uint8_t>(mac[i])
DiffStep_Assign(diff, buf, mac, i) == Xor8(buf[i + 1], ToUint8(mac[i + 1]))

\* diff ^= buf[i] ^ static_cast<uint8_t>(mac[i])
DiffStep_XorAcc(diff, buf, mac, i) == Xor8(diff, Xor8(buf[i + 1], ToUint8(mac[i + 1])))

\* diff |= buf[i] ^ static_cast<uint8_t>(mac[i]), i counted from 0
DiffStep(diff, buf, mac, i) == Or8(diff, Xor8(buf[i + 1], ToUint8(mac[i + 1])))

\* the iterations with lo <= i < hi, in increasing order of i, each one run only if
\* the loop test holds for it.  The range is halved, and the value of diff after the
\* first half is computed before the second half starts, only to keep the evaluation
\* shallow.
RECURSIVE DiffRange(_, _, _, _, _, _)
DiffRange(diff, buf, mac, lo, hi, tag_size) ==
  IF hi <= lo
    THEN diff
    ELSE IF hi = lo + 1
           THEN IF LoopCond(lo, tag_size) THEN DiffStep(diff, buf, mac, lo) ELSE diff
           ELSE LET mid == (lo + hi) \div 2
                IN CHOOSE d \in {DiffRange(left, buf, mac, mid, hi, tag_size) :
                                   left \in {DiffRange(diff, buf, mac, lo, mid, tag_size)}} :
                     TRUE

\* the comparison loop from index i on: for (; i < tag_size_; i++) diff |= ...
DiffLoop(diff, buf, mac, i, tag_size) == DiffRange(diff, buf, mac, i, tag_size, tag_size)

\* the final branch on diff
VerdictOf(diff) == IF diff = 0 THEN OkStatus ELSE VerificationFailure

\* VerifyMac is a const method: the object after a call
AfterVerifyMac(o) == o

\* VerifyMac on object o
VerifyMac(o, mac, data, g, works) ==
  IF TagLengthMismatch(Len(mac), o.tag_size_)
    THEN InvalidTagLength
    ELSE LET h == HMAC(o.md_, o.key_value_, data, UninitBuf(g), works)
         IN IF h.res = "nullptr"
              THEN ComputationFailure
              ELSE VerdictOf(DiffLoop(0, h.buf, mac, 0, o.tag_size_))

------------------------------------------------------------------------------
(* The callers' inputs *)

TagSizeInputs == (0 - TagMargin)..(EVP_MAX_MD_SIZE + TagMargin)

\* char c with bit k flipped
FlipChar(c, k) == ToChar(Xor8(ToUint8(c), 2 ^ k))

\* mac with bit k of its i-th char flipped
FlipMac(mac, i, k) == [mac EXCEPT ![i] = FlipChar(mac[i], k)]

\* the char positions whose bits are flipped
FlipBytes(n) == {i \in 1..n : i <= MaxFlipPrefix \/ i = n}

\* every tag that differs from mac in one bit of one of those chars
SingleBitFlips(mac) == {FlipMac(mac, i, k) : i \in FlipBytes(Len(mac)), k \in 0..7}

\* the same bit flipped in the first two chars
DoubleFlip(mac) == FlipMac(FlipMac(mac, 1, 0), 2, 0)

Zeros(n) == [i \in 1..n |-> 0]

\* the messages of Data that differ from data in one bit
DataFlips(data) ==
  {d \in Data : Len(d) = Len(data) /\ Len(d) = 1
                /\ \E k \in 0..7 : d[1] = Xor8(data[1], 2 ^ k)}

\* the (mac, data) pairs VerifyMac is called with
VerifyInputs(o, h) ==
  {<<Zeros(o.tag_size_), Data0>>, <<Zeros(o.tag_size_ + 1), Data0>>, <<<<>>, <<>>>>}
  \cup (IF ~h.has THEN {}
        ELSE {<<h.tag, h.data>>,
              <<SubSeq(h.tag, 1, Len(h.tag) - 1), h.data>>,
              <<h.tag \o <<0>>, h.data>>}
             \cup {<<m, h.data>> : m \in SingleBitFlips(h.tag)}
             \cup (IF Len(h.tag) >= 2 THEN {<<DoubleFlip(h.tag), h.data>>} ELSE {})
             \cup {<<h.tag, d>> : d \in DataFlips(h.data)})

------------------------------------------------------------------------------
(* Sequential caller: every call runs to completion *)

Threads == 1..NumThreads

\* a thread's frame: where it is in its call (pc), the call's arguments, the locals
\* buf (the bytes HMAC has written; the rest of buf is uninitialized), i and diff, the
\* number of loop bodies executed (iters) and, once the call is done, what it returns
IdleFrame ==
  [pc |-> "idle", op |-> "none", mac |-> <<>>, data |-> <<>>, buf |-> <<>>,
   i |-> 0, diff |-> 0, iters |-> 0, status |-> OkStatus, value |-> <<>>]

NoCall == [op |-> "none", mac |-> <<>>, data |-> <<>>, status |-> OkStatus, value |-> <<>>]
NoTag == [has |-> FALSE, tag |-> <<>>, data |-> <<>>]
NoNew ==
  [called |-> FALSE, hash_type |-> "UNKNOWN_HASH", tag_size |-> 0, key_value |-> <<>>,
   status |-> OkStatus]

Init ==
  /\ hmac_works \in BOOLEAN
  /\ macs = {}
  /\ newRes = NoNew
  /\ held = NoTag
  /\ last = NoCall
  /\ th = [t \in Threads |-> IdleFrame]

\* the caller calls New, once
NewCall(sizes, keys) ==
  /\ ~newRes.called
  /\ \E hash_type \in HashTypes, tag_size \in sizes, key_value \in keys :
       LET r == New(hash_type, tag_size, key_value)
       IN /\ macs' = r.value
          /\ newRes' = [called |-> TRUE, hash_type |-> hash_type, tag_size |-> tag_size,
                        key_value |-> key_value, status |-> r.status]
  /\ UNCHANGED <<hmac_works, held, last, th>>

ComputeMacCall ==
  /\ last = NoCall
  /\ \E o \in macs, data \in Messages, g \in UninitBytes :
       LET r == ComputeMac(o, data, g, hmac_works)
       IN /\ last' = [op |-> "ComputeMac", mac |-> <<>>, data |-> data,
                      status |-> r.status, value |-> r.value]
          /\ held' = IF r.status = OkStatus
                       THEN [has |-> TRUE, tag |-> r.value, data |-> data]
                       ELSE held
          /\ macs' = {AfterComputeMac(o)}
  /\ UNCHANGED <<hmac_works, newRes, th>>

VerifyMacCall ==
  /\ last = NoCall
  /\ \E o \in macs, g \in UninitBytes : \E in \in VerifyInputs(o, held) :
       /\ last' = [op |-> "VerifyMac", mac |-> in[1], data |-> in[2],
                   status |-> VerifyMac(o, in[1], in[2], g, hmac_works), value |-> <<>>]
       /\ macs' = {AfterVerifyMac(o)}
  /\ UNCHANGED <<hmac_works, newRes, held, th>>

\* the caller has looked at the result of its call and goes on
Return ==
  /\ last # NoCall
  /\ last' = NoCall
  /\ UNCHANGED <<hmac_works, macs, newRes, held, th>>

Next ==
  \/ NewCall(TagSizeInputs, Keys)
  \/ ComputeMacCall
  \/ VerifyMacCall
  \/ Return

Spec == Init /\ [][Next]_vars

------------------------------------------------------------------------------
(* Concurrent callers: each thread runs its call statement by statement *)

ConcTagSizes == 0..MaxConcTag

\* the (mac, data) pairs the threads call VerifyMac with: the tag of "0", that tag
\* with the first bit of its first char or the last bit of its last char flipped, and
\* a mac of another length
ConcVerifyInputs(o) ==
  LET tag == AsChars(SubSeq(HmacDigest(o.md_, o.key_value_, Data0), 1, o.tag_size_))
  IN {<<tag, Data0>>, <<FlipMac(tag, 1, 0), Data0>>,
      <<FlipMac(tag, Len(tag), 7), Data0>>, <<<<>>, Data0>>}

\* buf as a thread reads it: the bytes HMAC wrote, then uninitialized bytes g
BufRead(written, g) ==
  written \o [i \in 1..(EVP_MAX_MD_SIZE - Len(written)) |-> g]

Done(f, status, value) ==
  [f EXCEPT !.pc = "done", !.buf = <<>>, !.i = 0, !.diff = 0,
            !.status = status, !.value = value]

\* thread t enters ComputeMac(data)
CallComputeMac(t) ==
  /\ th[t].pc = "idle" /\ macs # {}
  /\ \E data \in Messages :
       th' = [th EXCEPT ![t] = [IdleFrame EXCEPT !.pc = "c_hmac", !.op = "ComputeMac",
                                                 !.data = data]]
  /\ UNCHANGED <<hmac_works, macs, newRes, held, last>>

\* ComputeMac, the call of HMAC and the test of its result
ComputeHmac(t) ==
  /\ th[t].pc = "c_hmac"
  /\ \E o \in macs, g \in UninitBytes :
       LET h == HMAC(o.md_, o.key_value_, th[t].data, UninitBuf(g), hmac_works)
       IN th' = [th EXCEPT ![t] =
                   IF h.res = "nullptr"
                     THEN Done(@, ComputationFailure, <<>>)
                     ELSE [@ EXCEPT !.pc = "c_ret",
                                    !.buf = SubSeq(h.buf, 1, EVP_MD_size(o.md_))]]
  /\ UNCHANGED <<hmac_works, macs, newRes, held, last>>

\* ComputeMac, the return of the tag
ComputeReturn(t) ==
  /\ th[t].pc = "c_ret"
  /\ \E o \in macs, g \in UninitBytes :
       /\ th' = [th EXCEPT ![t] =
                   Done(@, OkStatus, TagOfBuf(BufRead(th[t].buf, g), o.tag_size_))]
       /\ macs' = {AfterComputeMac(o)}
  /\ UNCHANGED <<hmac_works, newRes, held, last>>

\* thread t enters VerifyMac(mac, data)
CallVerifyMac(t) ==
  /\ th[t].pc = "idle"
  /\ \E o \in macs : \E in \in ConcVerifyInputs(o) :
       th' = [th EXCEPT ![t] = [IdleFrame EXCEPT !.pc = "v_len", !.op = "VerifyMac",
                                                 !.mac = in[1], !.data = in[2]]]
  /\ UNCHANGED <<hmac_works, macs, newRes, held, last>>

\* VerifyMac, the length check
VerifyLength(t) ==
  /\ th[t].pc = "v_len"
  /\ \E o \in macs :
       /\ th' = [th EXCEPT ![t] =
                   IF TagLengthMismatch(Len(th[t].mac), o.tag_size_)
                     THEN Done(@, InvalidTagLength, <<>>)
                     ELSE [@ EXCEPT !.pc = "v_hmac"]]
       /\ macs' = IF TagLengthMismatch(Len(th[t].mac), o.tag_size_)
                    THEN {AfterVerifyMac(o)}
                    ELSE macs
  /\ UNCHANGED <<hmac_works, newRes, held, last>>

\* VerifyMac, the call of HMAC and the test of its result, then diff = 0 and i = 0
VerifyHmac(t) ==
  /\ th[t].pc = "v_hmac"
  /\ \E o \in macs, g \in UninitBytes :
       LET h == HMAC(o.md_, o.key_value_, th[t].data, UninitBuf(g), hmac_works)
       IN /\ th' = [th EXCEPT ![t] =
                      IF h.res = "nullptr"
                        THEN Done(@, ComputationFailure, <<>>)
                        ELSE [@ EXCEPT !.pc = "v_loop", !.diff = 0, !.i = 0,
                                       !.buf = SubSeq(h.buf, 1, EVP_MD_size(o.md_))]]
          /\ macs' = IF h.res = "nullptr" THEN {AfterVerifyMac(o)} ELSE macs
  /\ UNCHANGED <<hmac_works, newRes, held, last>>

\* VerifyMac, the loop test and, when it holds, one loop body and i++
VerifyLoop(t) ==
  /\ th[t].pc = "v_loop"
  /\ \E o \in macs, g \in UninitBytes :
       th' = [th EXCEPT ![t] =
                IF LoopCond(th[t].i, o.tag_size_)
                  THEN [@ EXCEPT !.diff = DiffStep(th[t].diff, BufRead(th[t].buf, g),
                                                   th[t].mac, th[t].i),
                                 !.i = @ + 1,
                                 !.iters = @ + 1]
                  ELSE [@ EXCEPT !.pc = "v_branch"]]
  /\ UNCHANGED <<hmac_works, macs, newRes, held, last>>

\* VerifyMac, the branch on diff after the loop
VerifyBranch(t) ==
  /\ th[t].pc = "v_branch"
  /\ \E o \in macs :
       /\ th' = [th EXCEPT ![t] = Done(@, VerdictOf(th[t].diff), <<>>)]
       /\ macs' = {AfterVerifyMac(o)}
  /\ UNCHANGED <<hmac_works, newRes, held, last>>

\* the caller of thread t has taken the result
ThreadReturn(t) ==
  /\ th[t].pc = "done"
  /\ th' = [th EXCEPT ![t] = IdleFrame]
  /\ UNCHANGED <<hmac_works, macs, newRes, held, last>>

NextConc ==
  \/ NewCall(ConcTagSizes, {Key1})
  \/ \E t \in Threads :
       \/ CallComputeMac(t)
       \/ ComputeHmac(t)
       \/ ComputeReturn(t)
       \/ CallVerifyMac(t)
       \/ VerifyLength(t)
       \/ VerifyHmac(t)
       \/ VerifyLoop(t)
       \/ VerifyBranch(t)
       \/ ThreadReturn(t)

SpecConc == Init /\ [][NextConc]_vars

------------------------------------------------------------------------------
(* Properties of the sequential caller's calls *)

Supported == {"SHA1", "SHA224", "SHA256", "SHA512"}

\* the first n bytes of the full HMAC digest of data under o's key and hash, as chars
DigestPrefix(o, data, n) == AsChars(SubSeq(HmacDigest(o.md_, o.key_value_, data), 1, n))

\* the last call was VerifyMac(t, data) with the tag t the caller got for data
VerifiedOwnTag ==
  last.op = "VerifyMac" /\ held.has /\ last.mac = held.tag /\ last.data = held.data

\* C1: round trip. When ComputeMac(data) returned the tag t, VerifyMac(t, data) on
\* the same primitive returns OK.
C1_RoundTrip == VerifiedOwnTag => last.status = OkStatus

\* a truncated tag with a char that is negative has been verified
C1_Witness ==
  \E o \in macs :
    /\ VerifiedOwnTag /\ last.status = OkStatus
    /\ o.tag_size_ < EVP_MD_size(o.md_)
    /\ \E i \in 1..Len(held.tag) : held.tag[i] < 0

\* the last call was VerifyMac(t', data), t' the held tag with one bit flipped
VerifiedFlippedTag ==
  /\ last.op = "VerifyMac" /\ held.has /\ last.data = held.data
  /\ last.mac \in SingleBitFlips(held.tag)

\* the last call was VerifyMac(t, data'), data' the tag's message with one bit flipped
VerifiedFlippedData ==
  /\ last.op = "VerifyMac" /\ held.has /\ last.mac = held.tag
  /\ last.data \in DataFlips(held.data)

C3_LengthEnforcement ==
  \A o \in macs :
    (last.op = "VerifyMac" /\ Len(last.mac) # o.tag_size_)
      => last.status = InvalidTagLength

\* the correct tag followed by one more char has been rejected
C3_Witness ==
  /\ last.op = "VerifyMac" /\ held.has /\ last.data = held.data
  /\ last.mac = held.tag \o <<0>>
  /\ last.status = InvalidTagLength

\* C4: for a supported algorithm New succeeds exactly when
\* 0 < tag_size <= native size, and fails with InvalidTagSize otherwise; with
\* tag_size = native size ComputeMac returns the whole digest.
C4_TagSizeBoundary ==
  /\ (newRes.called /\ newRes.hash_type \in Supported) =>
       LET native == EVP_MD_size(EvpHash(newRes.hash_type).value)
       IN IF 0 < newRes.tag_size /\ newRes.tag_size <= native
            THEN newRes.status = OkStatus /\ Cardinality(macs) = 1
            ELSE newRes.status = InvalidTagSize /\ macs = {}
  /\ \A o \in macs :
       (last.op = "ComputeMac" /\ last.status = OkStatus
          /\ o.tag_size_ = EVP_MD_size(o.md_))
         => last.value = AsChars(HmacDigest(o.md_, o.key_value_, last.data))

\* a primitive with tag_size = native size has computed a tag
C4_Witness ==
  \E o \in macs :
    /\ last.op = "ComputeMac" /\ last.status = OkStatus
    /\ o.tag_size_ = EVP_MD_size(o.md_)
    /\ newRes.tag_size = o.tag_size_

\* C5: a tag ComputeMac returns has length tag_size and is the first tag_size bytes
\* of the full HMAC digest of the data.
C5_Truncation ==
  \A o \in macs :
    (last.op = "ComputeMac" /\ last.status = OkStatus)
      => LET digest == HmacDigest(o.md_, o.key_value_, last.data)
         IN /\ Len(last.value) = o.tag_size_
            /\ \A i \in 1..o.tag_size_ :
                 i <= Len(digest) /\ last.value[i] = ToChar(digest[i])

\* a tag shorter than the digest has been computed
C5_Witness ==
  \E o \in macs :
    /\ last.op = "ComputeMac" /\ last.status = OkStatus
    /\ o.tag_size_ < EVP_MD_size(o.md_)
    /\ Len(last.value) = o.tag_size_

\* C6: New with an algorithm other than SHA1, SHA224, SHA256, SHA512 fails with
\* UnsupportedAlgorithm for every tag_size and key, and creates nothing.
C6_UnsupportedAlgorithm ==
  (newRes.called /\ newRes.hash_type \notin Supported)
    => newRes.status = UnsupportedAlgorithm /\ macs = {}

\* New was called with an unsupported algorithm and a tag_size that is invalid
C6_Witness ==
  /\ newRes.called /\ newRes.hash_type \notin Supported
  /\ newRes.tag_size <= 0
  /\ newRes.status = UnsupportedAlgorithm

\* the status codes New returns on failure
ConstructionErrorCodes ==
  {New(h, n, k).status.code : h \in HashTypes, n \in TagSizeInputs, k \in Keys}
    \ {OkStatus.code}

\* C7: the status code of a failed ComputeMac or VerifyMac is never a status code
\* that a failed New returns.
C7_ErrorCodesDisjoint ==
  (last.op # "none" /\ last.status # OkStatus)
    => last.status.code \notin ConstructionErrorCodes

\* C10: for a mac of length tag_size and a working HMAC, VerifyMac returns OK when
\* the mac equals the tag ComputeMac returns for the data, VerificationFailure when
\* it does not.
C10_VerifyAgreesWithCompute ==
  \A o \in macs : \A g \in UninitBytes :
    (last.op = "VerifyMac" /\ Len(last.mac) = o.tag_size_ /\ hmac_works)
      => last.status =
           IF last.mac = ComputeMac(o, last.data, g, hmac_works).value
             THEN OkStatus
             ELSE VerificationFailure

\* a mac that differs from the tag by the same bit in two chars has been rejected
C10_Witness ==
  /\ last.op = "VerifyMac" /\ held.has /\ Len(held.tag) >= 2
  /\ last.mac = DoubleFlip(held.tag) /\ last.data = held.data
  /\ last.status = VerificationFailure

------------------------------------------------------------------------------
(* Properties of the concurrent callers' calls *)

\* the object New built from the arguments of the call recorded in newRes
CreatedObject ==
  HmacBoringSsl(EvpHash(newRes.hash_type).value, newRes.tag_size, newRes.key_value)

\* what the call in frame f returns when it runs alone on object o
AloneResult(o, f, g) ==
  IF f.op = "ComputeMac"
    THEN ComputeMac(o, f.data, g, hmac_works)
    ELSE [status |-> VerifyMac(o, f.mac, f.data, g, hmac_works), value |-> <<>>]

\* C8: in every state the primitive New returned has the fields New was given, with
\* 0 < tag_size <= native size, whatever calls the threads have made or are making,
\* and a call that is done returns what the same call returns when run alone.
C8_Immutable ==
  /\ newRes.status = OkStatus /\ newRes.called => macs = {CreatedObject}
  /\ \A o \in macs : 0 < o.tag_size_ /\ o.tag_size_ <= EVP_MD_size(o.md_)
  /\ \A t \in Threads : \A g \in UninitBytes :
       th[t].pc = "done" =>
         AloneResult(CreatedObject, th[t], g)
           = [status |-> th[t].status, value |-> th[t].value]

\* one thread is done with a ComputeMac while another is inside VerifyMac's loop
C8_Witness ==
  \E t, u \in Threads :
    /\ th[t].pc = "done" /\ th[t].op = "ComputeMac" /\ th[t].status = OkStatus
    /\ th[u].pc = "v_loop" /\ th[u].i >= 1

\* the frame is past the comparison loop of VerifyMac
PastLoop(f) ==
  \/ f.pc = "v_branch"
  \/ f.pc = "done" /\ f.op = "VerifyMac" /\ f.status \in {OkStatus, VerificationFailure}

\* C9: for every mac of the right length, equal to the tag or not, the loop body has
\* run exactly tag_size times when VerifyMac branches on diff, and no verdict is
\* returned before; inside the loop the bodies run so far are the i chars compared.
C9_ConstantTimeLoop ==
  \A o \in macs : \A t \in Threads :
    /\ PastLoop(th[t]) => th[t].iters = o.tag_size_
    /\ th[t].pc = "v_loop" => th[t].iters = th[t].i /\ th[t].i <= o.tag_size_

\* a mac whose first char differs was rejected after tag_size >= 2 loop bodies
C9_Witness ==
  \E o \in macs : \E t \in Threads :
    /\ th[t].pc = "done" /\ th[t].status = VerificationFailure
    /\ o.tag_size_ >= 2 /\ th[t].iters = o.tag_size_
    /\ th[t].mac[1] # ToChar(HmacDigest(o.md_, o.key_value_, th[t].data)[1])

====
